---- MODULE Spec2Model ----
(***************************************************************************)
(* Model of dictd/socket.go: the tokenizer (consumeAtom, consumeString,    *)
(* cleanup, tokenizeLine), the command parser (parseLine), the dispatcher  *)
(* (handleCommand) and the per-connection loop (Handle).                   *)
(*                                                                         *)
(* A Go string is a sequence of one-character strings.  Three              *)
(* specifications share the module:                                        *)
(*   Spec       one session running Handle on lines sent by a client;      *)
(*   SpecParse  tokenizeLine and parseLine applied to one input line, the  *)
(*              tokenizer loop taken one iteration at a time;              *)
(*   SpecWrite  WriteTextBlock called by the handlers of one session.      *)
(***************************************************************************)
EXTENDS Integers, Sequences, FiniteSets, TLC

\* ------------------------------------------------------------------ bounds
\* longest line a client sends in Spec
MaxLine == 3
\* longest input line of SpecParse
MaxLen == 5
\* number of lines a session reads successfully before the model stops reading
MaxReads == 3
\* number of responses one handler invocation writes
MaxWrites == 1
\* number of lines of the longest text block a handler writes
MaxPayload == 3

\* -------------------------------------------------------------- characters
SP == " "
TAB == "\t"
DQ == "\""
SQ == "'"
BS == "\\"

\* the characters a line is made of: a letter, the separators, the quotes
\* and the backslash
Chars == {"a", SP, TAB, DQ, SQ, BS}

\* the cutset of strings.Trim in cleanup and in Handle
Cutset == {SP, TAB, "\r", "\n"}

Quotes == {DQ, SQ}

StringsUpTo(n) == UNION {[1..k -> Chars] : k \in 0..n}

\* ------------------------------------------------------- library functions
RECURSIVE TrimLeft(_, _)
TrimLeft(s, cut) ==
  IF s # <<>> /\ Head(s) \in cut THEN TrimLeft(Tail(s), cut) ELSE s

RECURSIVE TrimRight(_, _)
TrimRight(s, cut) ==
  IF s # <<>> /\ s[Len(s)] \in cut
    THEN TrimRight(SubSeq(s, 1, Len(s) - 1), cut)
    ELSE s

\* strings.Trim(s, cutset)
Trim(s, cut) == TrimRight(TrimLeft(s, cut), cut)

\* strings.Replace(s, "\\", "", -1)
RemoveBackslashes(s) == SelectSeq(s, LAMBDA c : c # BS)

UpperChar(c) == IF c = "a" THEN "A" ELSE c

\* strings.ToUpper(s)
ToUpper(s) == [i \in 1..Len(s) |-> UpperChar(s[i])]

\* ---------------------------------------------------------------- tokenizer
cleanup(el) == Trim(el, Cutset)

\* consumeAtom stepping over the one space it found, without cleanup
consumeAtom_noCleanup(buf) ==
  IF \E i \in 1..Len(buf) : buf[i] = SP
    THEN LET i == CHOOSE k \in 1..Len(buf) :
                    /\ buf[k] = SP
                    /\ \A j \in 1..(k - 1) : buf[j] # SP
         IN  [token |-> SubSeq(buf, 1, i - 1),
              buffer |-> SubSeq(buf, i + 1, Len(buf)),
              err |-> FALSE]
    ELSE [token |-> buf, buffer |-> <<>>, err |-> FALSE]

\* consumeAtom returning buf[i:] as it is, the space it found included
consumeAtom_keepSpace(buf) ==
  IF \E i \in 1..Len(buf) : buf[i] = SP
    THEN LET i == CHOOSE k \in 1..Len(buf) :
                    /\ buf[k] = SP
                    /\ \A j \in 1..(k - 1) : buf[j] # SP
         IN  [token |-> SubSeq(buf, 1, i - 1),
              buffer |-> SubSeq(buf, i, Len(buf)),
              err |-> FALSE]
    ELSE [token |-> buf, buffer |-> <<>>, err |-> FALSE]

consumeAtom(buf) ==
  IF \E i \in 1..Len(buf) : buf[i] = SP
    THEN LET i == CHOOSE k \in 1..Len(buf) :
                    /\ buf[k] = SP
                    /\ \A j \in 1..(k - 1) : buf[j] # SP
         IN  [token |-> SubSeq(buf, 1, i - 1),
              buffer |-> cleanup(SubSeq(buf, i, Len(buf))),
              err |-> FALSE]
    ELSE [token |-> buf, buffer |-> <<>>, err |-> FALSE]

\* the for loop of consumeString failing when the buffer ends before the
\* closing quote
RECURSIVE consumeStringFrom_strict(_, _, _, _)
consumeStringFrom_strict(quote, buf, i, escape) ==
  IF i > Len(buf)
    THEN [token |-> <<>>, buffer |-> <<>>, err |-> TRUE]
    ELSE IF buf[i] = quote
      THEN IF ~escape
             THEN [token |-> RemoveBackslashes(SubSeq(buf, 1, i - 1)),
                   buffer |-> cleanup(SubSeq(buf, i + 1, Len(buf))),
                   err |-> FALSE]
             ELSE consumeStringFrom_strict(quote, buf, i + 1, FALSE)
      ELSE IF buf[i] = BS
        THEN consumeStringFrom_strict(quote, buf, i + 1, TRUE)
        ELSE IF buf[i] \in Quotes
          THEN IF ~escape
                 THEN [token |-> <<>>, buffer |-> <<>>, err |-> TRUE]
                 ELSE consumeStringFrom_strict(quote, buf, i + 1, FALSE)
          ELSE consumeStringFrom_strict(quote, buf, i + 1, FALSE)

\* the for loop of consumeString, at element i with the escape flag as given
RECURSIVE consumeStringFrom(_, _, _, _)
consumeStringFrom(quote, buf, i, escape) ==
  IF i > Len(buf)
    THEN [token |-> buf, buffer |-> <<>>, err |-> FALSE]
    ELSE IF buf[i] = quote
      THEN IF ~escape
             THEN [token |-> RemoveBackslashes(SubSeq(buf, 1, i - 1)),
                   buffer |-> cleanup(SubSeq(buf, i + 1, Len(buf))),
                   err |-> FALSE]
             ELSE consumeStringFrom(quote, buf, i + 1, FALSE)
      ELSE IF buf[i] = BS
        THEN consumeStringFrom(quote, buf, i + 1, TRUE)
        ELSE IF buf[i] \in Quotes
          THEN IF ~escape
                 THEN [token |-> <<>>, buffer |-> <<>>, err |-> TRUE]
                 ELSE consumeStringFrom(quote, buf, i + 1, FALSE)
          ELSE consumeStringFrom(quote, buf, i + 1, FALSE)

\* consumeString with the token passed through cleanup
consumeString_trimmed(quote, buf) ==
  LET r == consumeStringFrom(quote, buf, 1, FALSE)
  IN  [token |-> cleanup(r.token), buffer |-> r.buffer, err |-> r.err]

\* consumeString with the backslashes removed from the token on every path
consumeString_stripAll(quote, buf) ==
  LET r == consumeStringFrom(quote, buf, 1, FALSE)
  IN  [token |-> RemoveBackslashes(r.token), buffer |-> r.buffer,
       err |-> r.err]

consumeString(quote, buf) == consumeStringFrom(quote, buf, 1, FALSE)

\* one iteration of the loop of tokenizeLine on a non-empty line
consumeToken(l) ==
  IF Head(l) \in Quotes
    THEN consumeString(Head(l), Tail(l))
    ELSE consumeAtom(l)

\* the loop of tokenizeLine with an appended token dropped when it is empty
RECURSIVE tokenizeLoop_skipEmpty(_, _)
tokenizeLoop_skipEmpty(l, tokens) ==
  IF l = <<>>
    THEN [tokens |-> tokens, err |-> FALSE]
    ELSE LET r == consumeToken(l)
         IN  IF r.err
               THEN [tokens |-> <<>>, err |-> TRUE]
               ELSE tokenizeLoop_skipEmpty(r.buffer,
                      IF r.token = <<>> THEN tokens
                                        ELSE Append(tokens, r.token))

\* the loop of tokenizeLine, the remaining line and the tokens so far
RECURSIVE tokenizeLoop(_, _)
tokenizeLoop(l, tokens) ==
  IF l = <<>>
    THEN [tokens |-> tokens, err |-> FALSE]
    ELSE LET r == consumeToken(l)
         IN  IF r.err
               THEN [tokens |-> <<>>, err |-> TRUE]
               ELSE tokenizeLoop(r.buffer, Append(tokens, r.token))

tokenizeLine(l) == tokenizeLoop(l, <<>>)

\* ------------------------------------------------------------------- parser
\* A *Command is a sequence of length 0 (nil) or 1.  status is "ok", "err"
\* (the tokenizer's error, returned) or "panic" (tokens[0] out of range).

\* parseLine with the whole token list upper-cased
parseLine_upperAll(l) ==
  LET t == tokenizeLine(l)
  IN  IF t.err
        THEN [command |-> <<>>, status |-> "err"]
        ELSE IF t.tokens = <<>>
          THEN [command |-> <<>>, status |-> "panic"]
          ELSE [command |-> <<[Command |-> ToUpper(t.tokens[1]),
                               Params |-> [i \in 1..(Len(t.tokens) - 1) |->
                                             ToUpper(t.tokens[i + 1])]]>>,
                status |-> "ok"]

parseLine(l) ==
  LET t == tokenizeLine(l)
  IN  IF t.err
        THEN [command |-> <<>>, status |-> "err"]
        ELSE IF t.tokens = <<>>
          THEN [command |-> <<>>, status |-> "panic"]
          ELSE [command |-> <<[Command |-> ToUpper(t.tokens[1]),
                               Params |-> Tail(t.tokens)]>>,
                status |-> "ok"]

\* -------------------------------------------------------------------- state
VARIABLES
  pc,         \* position of Handle: HANDSHAKE, ACTIVE (about to call
              \* ReadLine), GOTLINE, HANDLER (inside a handler call),
              \* CLOSED (returned), PANIC
  line,       \* Handle's local line, as ReadLine returned it
  command,    \* Handle's local command: nil or a pointer to a Command
  options,    \* session.Options
  nread,      \* number of ReadLine calls that returned a line
  readerrs,   \* number of ReadLine calls that returned an error
  handshakes, \* number of handshakeHandler invocations
  calls,      \* the command handler invocations, in order
  outcomes,   \* what became of each line read: empty, parseerr or parsed
  inflight,   \* handler invocations that have not returned
  closes,     \* number of Close calls on the session's connection
  wrote,      \* responses written to the connection since the last
              \* ReadLine call returned
  tline,      \* SpecParse: the input line
  tbuf,       \* SpecParse: tokenizeLine's remaining line
  ttokens,    \* SpecParse: tokenizeLine's tokens
  tpc,        \* SpecParse: loop, tokok, tokerr, ok, err, panic
  tcmd,       \* SpecParse: parseLine's *Command
  out,        \* SpecWrite: the lines the last WriteTextBlock call handed
              \* to the connection's writer
  stream,     \* SpecWrite: the payload of that call, as lines
  werr,       \* SpecWrite: whether its writer.Write returned an error
  dot         \* SpecWrite: the writer's dot framing: none, open, closed

sessionVars == <<pc, line, command, options, nread, readerrs, handshakes,
                 calls, outcomes, inflight, closes, wrote>>

parseVars == <<tline, tbuf, ttokens, tpc, tcmd>>

writeVars == <<out, stream, werr, dot>>

vars == <<pc, line, command, options, nread, readerrs, handshakes, calls,
          outcomes, inflight, closes, wrote,
          tline, tbuf, ttokens, tpc, tcmd, out, stream, werr, dot>>

\* the verbs the server's registry has a handler for
Registered == {<<"A">>, <<"A", "A">>}

\* Server.GetHandler: nil, or the handler registered under the verb
GetHandler(cmd) == IF cmd.Command \in Registered THEN <<cmd.Command>> ELSE <<>>

Lines == StringsUpTo(MaxLine)

ParseLines == StringsUpTo(MaxLen)

WriteIdle ==
  /\ out = <<>>
  /\ stream = <<>>
  /\ werr = FALSE
  /\ dot = "none"

ParseIdle ==
  /\ tline = <<>>
  /\ tbuf = <<>>
  /\ ttokens = <<>>
  /\ tpc = "off"
  /\ tcmd = <<>>

\* the session as Handle constructs it
Init ==
  /\ pc = "HANDSHAKE"
  /\ line = <<>>
  /\ command = <<>>
  /\ options = [MIME |-> FALSE]
  /\ nread = 0
  /\ readerrs = 0
  /\ handshakes = 0
  /\ calls = <<>>
  /\ outcomes = <<>>
  /\ inflight = 0
  /\ closes = 0
  /\ wrote = 0
  /\ ParseIdle
  /\ WriteIdle

\* ------------------------------------------------------------------- Handle
\* Handle entering its loop without the call of handshakeHandler
Handshake_skipped ==
  /\ pc = "HANDSHAKE"
  /\ pc' = "ACTIVE"
  /\ UNCHANGED <<line, command, options, nread, readerrs, handshakes, calls,
                 outcomes, inflight, closes, wrote>>
  /\ UNCHANGED parseVars
  /\ UNCHANGED writeVars

\* handshakeHandler(&session): the greeting is written, the loop is entered
Handshake ==
  /\ pc = "HANDSHAKE"
  /\ handshakes' = handshakes + 1
  /\ wrote' = wrote + 1
  /\ pc' = "ACTIVE"
  /\ UNCHANGED <<line, command, options, nread, readerrs, calls, outcomes,
                 inflight, closes>>
  /\ UNCHANGED parseVars
  /\ UNCHANGED writeVars

\* proto.ReadLine() returns a line
ReadLineOk ==
  /\ pc = "ACTIVE"
  /\ nread < MaxReads
  /\ \E l \in Lines : line' = l
  /\ nread' = nread + 1
  /\ wrote' = 0
  /\ pc' = "GOTLINE"
  /\ UNCHANGED <<command, options, readerrs, handshakes, calls, outcomes,
                 inflight, closes>>
  /\ UNCHANGED parseVars
  /\ UNCHANGED writeVars

\* a read error answered by continue
ReadLineErr_retry ==
  /\ pc = "ACTIVE"
  /\ readerrs < 2
  /\ readerrs' = readerrs + 1
  /\ pc' = "ACTIVE"
  /\ UNCHANGED <<line, command, options, nread, handshakes, calls, outcomes,
                 inflight, closes, wrote>>
  /\ UNCHANGED parseVars
  /\ UNCHANGED writeVars

\* proto.ReadLine() returns an error: Handle logs it and returns
ReadLineErr ==
  /\ pc = "ACTIVE"
  /\ readerrs' = readerrs + 1
  /\ pc' = "CLOSED"
  /\ UNCHANGED <<line, command, options, nread, handshakes, calls, outcomes,
                 inflight, closes, wrote>>
  /\ UNCHANGED parseVars
  /\ UNCHANGED writeVars

\* a discarded line answered with a status line
discardLine_reply(why) ==
  /\ pc' = "ACTIVE"
  /\ line' = <<>>
  /\ outcomes' = Append(outcomes, why)
  /\ wrote' = wrote + 1
  /\ UNCHANGED <<command, options, nread, readerrs, handshakes, calls,
                 inflight, closes>>

\* the two continue statements of the loop
discardLine(why) ==
  /\ pc' = "ACTIVE"
  /\ line' = <<>>
  /\ outcomes' = Append(outcomes, why)
  /\ UNCHANGED <<command, options, nread, readerrs, handshakes, calls,
                 inflight, closes, wrote>>

\* handleCommand without the else: the fallback runs, then the handler
handleCommand_both(cmd) ==
  LET handler == GetHandler(cmd)
  IN  /\ calls' = IF handler = <<>>
                    THEN Append(calls, [kind |-> "unknown", key |-> <<>>,
                                        n |-> nread])
                    ELSE calls \o
                         <<[kind |-> "unknown", key |-> <<>>, n |-> nread],
                           [kind |-> "registered", key |-> handler[1],
                            n |-> nread]>>
      /\ command' = <<cmd>>
      /\ inflight' = inflight + 1
      /\ pc' = "HANDLER"
      /\ UNCHANGED <<line, options, nread, readerrs, handshakes, closes,
                     wrote>>

\* handleCommand starting the handler without waiting for it
handleCommand_async(cmd) ==
  LET handler == GetHandler(cmd)
  IN  /\ calls' = Append(calls,
                    IF handler = <<>>
                      THEN [kind |-> "unknown", key |-> <<>>, n |-> nread]
                      ELSE [kind |-> "registered", key |-> handler[1],
                            n |-> nread])
      /\ command' = <<cmd>>
      /\ inflight' = inflight + 1
      /\ pc' = "ACTIVE"
      /\ UNCHANGED <<line, options, nread, readerrs, handshakes, closes,
                     wrote>>

\* handleCommand up to the call of the handler it chose
handleCommand(cmd) ==
  LET handler == GetHandler(cmd)
  IN  /\ calls' = Append(calls,
                    IF handler = <<>>
                      THEN [kind |-> "unknown", key |-> <<>>, n |-> nread]
                      ELSE [kind |-> "registered", key |-> handler[1],
                            n |-> nread])
      /\ command' = <<cmd>>
      /\ inflight' = inflight + 1
      /\ pc' = "HANDLER"
      /\ UNCHANGED <<line, options, nread, readerrs, handshakes, closes,
                     wrote>>

\* the index expression tokens[0] of parseLine out of range
panicInParseLine ==
  /\ pc' = "PANIC"
  /\ UNCHANGED <<line, command, options, nread, readerrs, handshakes, calls,
                 outcomes, inflight, closes, wrote>>

\* the loop body after ReadLine: trim, skip an empty line, parse, dispatch
ProcessLine ==
  /\ pc = "GOTLINE"
  /\ LET l == Trim(line, Cutset)
     IN  IF l = <<>>
           THEN discardLine("empty")
           ELSE LET r == parseLine(l)
                IN  IF r.status = "panic"
                      THEN panicInParseLine
                      ELSE IF r.status = "err"
                        THEN discardLine("parseerr")
                        ELSE /\ outcomes' = Append(outcomes, "parsed")
                             /\ handleCommand(r.command[1])
  /\ UNCHANGED parseVars
  /\ UNCHANGED writeVars

\* --------------------------------------------------------- command handlers
\* a handler calls WriteCode
HandlerWriteCode ==
  /\ pc = "HANDLER"
  /\ wrote < MaxWrites
  /\ wrote' = wrote + 1
  /\ UNCHANGED <<pc, line, command, options, nread, readerrs, handshakes,
                 calls, outcomes, inflight, closes>>
  /\ UNCHANGED parseVars
  /\ UNCHANGED writeVars

\* a handler sets the session's MIME option
HandlerSetOption ==
  /\ pc = "HANDLER"
  /\ options.MIME = FALSE
  /\ options' = [options EXCEPT !.MIME = TRUE]
  /\ UNCHANGED <<pc, line, command, nread, readerrs, handshakes, calls,
                 outcomes, inflight, closes, wrote>>
  /\ UNCHANGED parseVars
  /\ UNCHANGED writeVars

\* the handler invocation returns and the loop goes on to the next ReadLine
HandlerReturn ==
  /\ inflight > 0
  /\ inflight' = inflight - 1
  /\ pc' = IF pc = "HANDLER" THEN "ACTIVE" ELSE pc
  /\ line' = IF pc = "HANDLER" THEN <<>> ELSE line
  /\ command' = IF pc = "HANDLER" THEN <<>> ELSE command
  /\ UNCHANGED <<options, nread, readerrs, handshakes, calls, outcomes,
                 closes, wrote>>
  /\ UNCHANGED parseVars
  /\ UNCHANGED writeVars

Next ==
  \/ Handshake
  \/ ReadLineOk
  \/ ReadLineErr
  \/ ProcessLine
  \/ HandlerWriteCode
  \/ HandlerSetOption
  \/ HandlerReturn

Spec == Init /\ [][Next]_vars

\* ---------------------------------------------------------------- SpecParse
SessionIdle ==
  /\ pc = "off"
  /\ line = <<>>
  /\ command = <<>>
  /\ options = [MIME |-> FALSE]
  /\ nread = 0
  /\ readerrs = 0
  /\ handshakes = 0
  /\ calls = <<>>
  /\ outcomes = <<>>
  /\ inflight = 0
  /\ closes = 0
  /\ wrote = 0

\* parseLine is called on a line; tokenizeLine starts on it
InitParse ==
  /\ tline \in ParseLines
  /\ tbuf = tline
  /\ ttokens = <<>>
  /\ tpc = "loop"
  /\ tcmd = <<>>
  /\ SessionIdle
  /\ WriteIdle

\* one iteration of the loop of tokenizeLine
TokStep ==
  /\ tpc = "loop"
  /\ tbuf # <<>>
  /\ LET r == consumeToken(tbuf)
     IN  IF r.err
           THEN /\ tpc' = "tokerr"
                /\ ttokens' = <<>>
                /\ tbuf' = r.buffer
           ELSE /\ tpc' = "loop"
                /\ ttokens' = Append(ttokens, r.token)
                /\ tbuf' = r.buffer
  /\ UNCHANGED <<tline, tcmd>>
  /\ UNCHANGED sessionVars
  /\ UNCHANGED writeVars

\* the loop of tokenizeLine ends on the empty line
TokReturn ==
  /\ tpc = "loop"
  /\ tbuf = <<>>
  /\ tpc' = "tokok"
  /\ UNCHANGED <<tline, tbuf, ttokens, tcmd>>
  /\ UNCHANGED sessionVars
  /\ UNCHANGED writeVars

\* parseLine returns
ParseReturn ==
  /\ tpc \in {"tokok", "tokerr"}
  /\ LET r == parseLine(tline)
     IN  /\ tcmd' = r.command
         /\ tpc' = r.status
  /\ UNCHANGED <<tline, tbuf, ttokens>>
  /\ UNCHANGED sessionVars
  /\ UNCHANGED writeVars

NextParse ==
  \/ TokStep
  \/ TokReturn
  \/ ParseReturn

SpecParse == InitParse /\ [][NextParse]_vars

\* ---------------------------------------------------------------- SpecWrite
\* A line of output is a sequence of pieces of text, <<>> the blank line;
\* out is the sequence of lines the calls of one WriteTextBlock emit to the
\* connection's Writer.

\* the format string of the PrintfLine call, and the line end PrintfLine adds
\* after it
HeaderLines ==
  << <<"Content-type: text/plain; charset=utf-8">>,
     <<"Content-transfer-encoding: 8bit">>,
     <<>> >>

\* the line that ends a dot-framed block
Terminator == <<".">>

\* the lines of a payload: the blank line, a line of text, the line that is
\* one dot and a line of text that begins with a dot
PayloadLines == {<<>>, <<"a">>, <<".">>, <<".", "a">>}

\* the payloads a handler passes as stream, as sequences of lines
Payloads == UNION {[1..k -> PayloadLines] : k \in 0..MaxPayload}

\* the dot writer's Write: a line that begins with a dot gets a second dot
DotStuff(s) ==
  [i \in 1..Len(s) |->
     IF s[i] # <<>> /\ Head(s[i]) = "." THEN <<".">> \o s[i] ELSE s[i]]

\* WriteTextBlock consulting the MIME option as Handle constructed it
WriteTextBlockResult_noHeader(mime, s, k) ==
  [out |-> DotStuff(SubSeq(s, 1, k)) \o <<Terminator>>,
   werr |-> k < Len(s),
   dot |-> "closed"]

\* WriteTextBlock returning on the error of Write, before Close
WriteTextBlockResult_returnOnError(mime, s, k) ==
  IF k < Len(s)
    THEN [out |-> (IF mime THEN HeaderLines ELSE <<>>)
                    \o DotStuff(SubSeq(s, 1, k)),
          werr |-> TRUE,
          dot |-> "open"]
    ELSE [out |-> (IF mime THEN HeaderLines ELSE <<>>)
                    \o DotStuff(s) \o <<Terminator>>,
          werr |-> FALSE,
          dot |-> "closed"]

\* WriteTextBlock on a session whose MIME option is mime, with payload s, of
\* which Write takes the first k lines (k < Len(s): Write fails partway, and
\* its error is dropped); Close follows Write in either case
WriteTextBlockResult(mime, s, k) ==
  [out |-> (IF mime THEN HeaderLines ELSE <<>>)
             \o DotStuff(SubSeq(s, 1, k)) \o <<Terminator>>,
   werr |-> k < Len(s),
   dot |-> "closed"]

\* a session as Handle constructed it; no text block written yet
InitWrite ==
  /\ SessionIdle
  /\ ParseIdle
  /\ WriteIdle

\* a handler sets the MIME option of its session
SetOption ==
  /\ \E v \in BOOLEAN :
       /\ v # options.MIME
       /\ options' = [options EXCEPT !.MIME = v]
  /\ UNCHANGED <<pc, line, command, nread, readerrs, handshakes, calls,
                 outcomes, inflight, closes, wrote>>
  /\ UNCHANGED parseVars
  /\ UNCHANGED writeVars

\* a handler calls WriteTextBlock(session, stream)
WriteTextBlock ==
  /\ \E s \in Payloads :
       \E k \in 0..Len(s) :
         LET r == WriteTextBlockResult(options.MIME, s, k)
         IN  /\ stream' = s
             /\ out' = r.out
             /\ werr' = r.werr
             /\ dot' = r.dot
  /\ UNCHANGED sessionVars
  /\ UNCHANGED parseVars

NextWrite ==
  \/ SetOption
  \/ WriteTextBlock

SpecWrite == InitWrite /\ [][NextWrite]_vars

\* ------------------------------------------------------------------- claims
\* what Handle passes to parseLine
Trimmed == Trim(line, Cutset)

\* C1: the loop never indexes an empty token list: Handle never panics in
\* parseLine, and for every line read that is non-empty after trimming the
\* tokenizer either fails or yields at least one token.
C1_ParserAccessInRange ==
  /\ pc # "PANIC"
  /\ (pc = "GOTLINE" /\ Trimmed # <<>>) =>
       LET t == tokenizeLine(Trimmed)
       IN  t.err \/ Len(t.tokens) >= 1

\* a line with surrounding blanks and a quote or backslash in it was parsed
\* and dispatched
C1_Witness ==
  /\ pc = "HANDLER"
  /\ line # Trimmed
  /\ \E i \in 1..Len(line) : line[i] \in Quotes \cup {BS}

CallsFor(n) == {i \in 1..Len(calls) : calls[i].n = n}

\* C2: every line that parsed has exactly one handler invocation, every other
\* line none; the invocation in progress is the registered handler of the
\* command's verb when the registry has one, the fallback when it has none.
C2_ExactlyOneHandler ==
  /\ \A n \in 1..Len(outcomes) :
       Cardinality(CallsFor(n)) = IF outcomes[n] = "parsed" THEN 1 ELSE 0
  /\ \A i \in 1..Len(calls) : calls[i].n \in 1..Len(outcomes)
  /\ pc = "HANDLER" =>
       /\ Len(command) = 1
       /\ calls # <<>>
       /\ LET c == calls[Len(calls)]
          IN  IF command[1].Command \in Registered
                THEN c.kind = "registered" /\ c.key = command[1].Command
                ELSE c.kind = "unknown"

\* an unregistered verb went to the fallback, then a registered verb to its
\* handler
C2_Witness ==
  /\ pc = "HANDLER"
  /\ Len(calls) = 2
  /\ calls[1].kind = "unknown"
  /\ calls[2].kind = "registered"

\* C3: a failed read moves the loop to CLOSED and invokes no handler; once a
\* read has failed, nothing is read, no handler is invoked, no read is tried
\* again and the loop stays CLOSED.
C3_ReadFailureFatal ==
  [][/\ readerrs' > readerrs =>
          /\ pc' = "CLOSED"
          /\ calls' = calls
          /\ inflight' = inflight
     /\ readerrs >= 1 =>
          /\ pc' = "CLOSED"
          /\ nread' = nread
          /\ readerrs' = readerrs
          /\ calls' = calls]_vars

\* the read failed after a command had been dispatched
C3_Witness ==
  /\ pc = "CLOSED"
  /\ readerrs = 1
  /\ Len(calls) >= 1

\* C4: when the loop has ended on a read failure the connection has been
\* closed exactly once.
C4_ReleasedExactlyOnce == pc = "CLOSED" => closes = 1

\* C5: at most one handler invocation is in progress, a line is read only
\* when none is, and handlers are invoked in the order the lines were read.
C5_SequentialDispatch ==
  [][/\ inflight' <= 1
     /\ nread' # nread => inflight = 0
     /\ calls' # calls => inflight = 0
     /\ \A i, j \in 1..Len(calls') :
          i < j => calls'[i].n < calls'[j].n]_vars

\* the second command is in its handler after the first handler returned
C5_Witness ==
  /\ pc = "HANDLER"
  /\ inflight = 1
  /\ Len(calls) = 2

\* C6: the handshake handler has run exactly once as soon as the loop is
\* entered, and not at all before; no line is read and no handler invoked
\* before it.
C6_HandshakeOnce ==
  /\ handshakes <= 1
  /\ pc = "HANDSHAKE" =>
       /\ handshakes = 0
       /\ nread = 0
       /\ readerrs = 0
       /\ calls = <<>>
  /\ pc # "HANDSHAKE" => handshakes = 1

\* two commands were dispatched after the one handshake
C6_Witness ==
  /\ handshakes = 1
  /\ nread >= 2
  /\ Len(calls) >= 2

\* C7: a line that is empty after trimming or does not parse is dropped: no
\* handler is invoked, nothing is written, and the loop is back at ReadLine.
C7_SkippedSilently ==
  [][(/\ pc = "GOTLINE"
      /\ \/ Trimmed = <<>>
         \/ parseLine(Trimmed).status = "err") =>
       /\ pc' = "ACTIVE"
       /\ calls' = calls
       /\ inflight' = inflight
       /\ wrote' = wrote
       /\ readerrs' = readerrs]_vars

\* an empty line and a line that did not parse were skipped, and the line
\* after them was dispatched
C7_Witness ==
  /\ pc = "HANDLER"
  /\ Len(outcomes) = 3
  /\ outcomes[1] = "empty"
  /\ outcomes[2] = "parseerr"
  /\ outcomes[3] = "parsed"
  /\ Len(calls) = 1

\* the number of backslashes that end at position i of buf
RECURSIVE BackslashRun(_, _)
BackslashRun(buf, i) ==
  IF i >= 1 /\ buf[i] = BS THEN 1 + BackslashRun(buf, i - 1) ELSE 0

\* the character at position i is escaped: the backslash before it is not
\* itself escaped
EscapedAt(buf, i) == BackslashRun(buf, i - 1) % 2 = 1

\* buf, the text after an opening quote, has an unescaped quote of the other
\* kind before its first unescaped closing quote
OtherQuoteBeforeClose(quote, buf) ==
  \E c \in 1..Len(buf) :
    /\ buf[c] = quote
    /\ ~EscapedAt(buf, c)
    /\ \A k \in 1..(c - 1) : ~(buf[k] = quote /\ ~EscapedAt(buf, k))
    /\ \E j \in 1..(c - 1) : buf[j] \in Quotes \ {quote} /\ ~EscapedAt(buf, j)

\* C8: wherever the tokenizer stands in the line, a quoted token with an
\* unescaped quote of the other kind before its closing quote makes the
\* tokenizer fail with no tokens, and parseLine returns that error and no
\* command.
C8_MismatchedQuoteFails ==
  [][/\ (/\ tpc = "loop"
         /\ tbuf # <<>>
         /\ Head(tbuf) \in Quotes
         /\ OtherQuoteBeforeClose(Head(tbuf), Tail(tbuf))) =>
          /\ tpc' = "tokerr"
          /\ ttokens' = <<>>
     /\ tpc = "tokerr" =>
          /\ tpc' = "err"
          /\ tcmd' = <<>>]_vars

\* C9: the parsed command's verb is the upper-cased first token and its
\* parameters are the remaining tokens, in order and unchanged.
C9_VerbUpperParamsVerbatim ==
  tpc = "ok" =>
    /\ Len(tcmd) = 1
    /\ Len(ttokens) >= 1
    /\ tcmd[1].Command = ToUpper(ttokens[1])
    /\ Len(tcmd[1].Params) = Len(ttokens) - 1
    /\ \A i \in 1..Len(tcmd[1].Params) : tcmd[1].Params[i] = ttokens[i + 1]

\* a lower-case verb with two lower-case parameters was parsed
C9_Witness ==
  /\ tpc = "ok"
  /\ ttokens = << <<"a">>, <<"a">>, <<"a">> >>
  /\ tcmd[1].Command = <<"A">>
  /\ tcmd[1].Params = << <<"a">>, <<"a">> >>

\* C10: a command parsed from a line that is non-empty after trimming has a
\* non-empty verb.
C10_VerbNonEmpty ==
  (tpc = "ok" /\ tline # <<>> /\ tline = Trim(tline, Cutset)) =>
    tcmd[1].Command # <<>>

CountBackslashes(s) == Len(SelectSeq(s, LAMBDA c : c = BS))

RECURSIVE TotalBackslashes(_)
TotalBackslashes(tokens) ==
  IF tokens = <<>>
    THEN 0
    ELSE CountBackslashes(Head(tokens)) + TotalBackslashes(Tail(tokens))

\* the backslashes of l that are themselves escaped, the only ones a token
\* may keep
EscapedBackslashes(l) ==
  Cardinality({i \in 1..Len(l) : l[i] = BS /\ EscapedAt(l, i)})

\* C11: the tokens of a successful tokenization retain no unescaped
\* backslash, whichever path produced them: every backslash left in a token
\* is an escaped backslash of the line, so the tokens hold no more
\* backslashes than the line has escaped ones.
C11_NoUnescapedBackslash ==
  tpc = "tokok" => TotalBackslashes(ttokens) <= EscapedBackslashes(tline)

\* the maximal space-free stretches of l, in order
RECURSIVE SplitSpaces(_)
SplitSpaces(l) ==
  IF l = <<>>
    THEN <<>>
    ELSE IF Head(l) = SP
      THEN SplitSpaces(Tail(l))
      ELSE LET n == IF \E i \in 1..Len(l) : l[i] = SP
                      THEN (CHOOSE k \in 1..Len(l) :
                              /\ l[k] = SP
                              /\ \A j \in 1..(k - 1) : l[j] # SP) - 1
                      ELSE Len(l)
           IN  <<SubSeq(l, 1, n)>> \o SplitSpaces(SubSeq(l, n + 1, Len(l)))

\* l is a sequence of atoms joined by one or more spaces: no tab, CR or LF,
\* no space at either end, and no stretch that begins with a quote
AtomLine(l) ==
  /\ \A i \in 1..Len(l) : l[i] \notin Cutset \ {SP}
  /\ l # <<>> => Head(l) # SP /\ l[Len(l)] # SP
  /\ \A i \in 1..Len(SplitSpaces(l)) : Head(SplitSpaces(l)[i]) \notin Quotes

\* C12: a line of atoms joined by one or more spaces tokenizes without
\* error to exactly those atoms in order, quotes and backslashes inside an
\* atom kept, and runs of spaces giving no empty token.
C12_AtomsVerbatim ==
  AtomLine(tline) =>
    /\ tpc # "tokerr"
    /\ tpc = "tokok" => ttokens = SplitSpaces(tline)

\* an atom with a quote inside and an atom that is a backslash, two spaces
\* between them
C12_Witness ==
  /\ tpc = "tokok"
  /\ tline = <<"a", "'", " ", " ", "\\">>
  /\ ttokens = << <<"a", "'">>, <<"\\">> >>

\* the index of the first c in s, 0 when s has none
FirstIndex(s, c) ==
  IF \E i \in 1..Len(s) : s[i] = c
    THEN CHOOSE k \in 1..Len(s) : s[k] = c /\ \A j \in 1..(k - 1) : s[j] # c
    ELSE 0

\* buf, the text after an opening quote, is closed by the same quote and
\* has neither quote character nor a backslash before it
PlainClosed(quote, buf) ==
  /\ FirstIndex(buf, quote) > 0
  /\ \A j \in 1..(FirstIndex(buf, quote) - 1) : buf[j] \notin Quotes \cup {BS}

\* C13: a quoted token closed by its own quote, with neither quote character
\* nor a backslash inside, yields exactly one token, the text between the
\* quotes with its spaces; the closing quote is consumed and tokenization
\* goes on with the rest of the line.
C13_ClosedQuotedVerbatim ==
  [][(/\ tpc = "loop"
      /\ tbuf # <<>>
      /\ Head(tbuf) \in Quotes
      /\ PlainClosed(Head(tbuf), Tail(tbuf)))
     => LET buf == Tail(tbuf)
            c == FirstIndex(buf, Head(tbuf))
        IN  /\ tpc' = "loop"
            /\ ttokens' = Append(ttokens, SubSeq(buf, 1, c - 1))
            /\ tbuf' = Trim(SubSeq(buf, c + 1, Len(buf)), Cutset)]_vars

\* the line " a"a: the quoted token keeps its leading space and the atom
\* after the closing quote is the next token
C13_Witness ==
  /\ tpc = "tokok"
  /\ tline = <<"\"", " ", "a", "\"", "a">>
  /\ ttokens = << <<" ", "a">>, <<"a">> >>

\* a step of WriteTextBlock
WriteStep == <<out, stream, werr, dot>>' # <<out, stream, werr, dot>>

\* the last n elements of s
LastN(s, n) == SubSeq(s, Len(s) - n + 1, Len(s))

\* the payload s in dot framing
Framed(s) == DotStuff(s) \o <<Terminator>>

\* C14: a text-block write on a session whose MIME option is true at that
\* moment emits the Content-type line, then the Content-transfer-encoding
\* line, before the dot-framed payload; on a session whose option is false
\* it emits the dot-framed payload and nothing else.
C14_HeaderIffMime ==
  [][WriteStep =>
       IF options.MIME
         THEN /\ Len(out') >= 2
              /\ out'[1] = <<"Content-type: text/plain; charset=utf-8">>
              /\ out'[2] = <<"Content-transfer-encoding: 8bit">>
              /\ ~werr' =>
                   /\ Len(out') >= 2 + Len(Framed(stream'))
                   /\ LastN(out', Len(Framed(stream'))) = Framed(stream')
                   /\ \A i \in 3..(Len(out') - Len(Framed(stream'))) :
                        out'[i] = <<>>
         ELSE /\ \A i \in 1..Len(out') :
                   out'[i] \notin
                     {<<"Content-type: text/plain; charset=utf-8">>,
                      <<"Content-transfer-encoding: 8bit">>}
              /\ ~werr' => out' = Framed(stream')]_vars

\* the option was set to true in the session and a payload with a line that
\* begins with a dot was written in full after that
C14_Witness ==
  /\ options.MIME
  /\ ~werr
  /\ stream = << <<".", "a">>, <<"a">> >>
  /\ Len(out) = 6
  /\ out[1] = <<"Content-type: text/plain; charset=utf-8">>
  /\ out[4] = <<".", ".", "a">>
  /\ out[6] = <<".">>

\* C19: a text-block write that opened the dot-framed block has also
\* closed it when it returns, the lone-dot line being the last line it
\* emitted, also when the write of the payload failed partway.
C19_BlockAlwaysClosed ==
  /\ dot # "open"
  /\ dot = "closed" => out # <<>> /\ out[Len(out)] = <<".">>

\* Write failed after the first of two payload lines and the block ends
\* with the lone dot all the same
C19_Witness ==
  /\ werr
  /\ dot = "closed"
  /\ stream = << <<"a">>, <<".", "a">> >>
  /\ out = << <<"a">>, <<".">> >>

\* the index of the first quote character of either kind in buf that is not
\* escaped, 0 when buf has none
FirstUnescapedQuote(buf) ==
  IF \E i \in 1..Len(buf) : buf[i] \in Quotes /\ ~EscapedAt(buf, i)
    THEN CHOOSE k \in 1..Len(buf) :
           /\ buf[k] \in Quotes /\ ~EscapedAt(buf, k)
           /\ \A j \in 1..(k - 1) : ~(buf[j] \in Quotes /\ ~EscapedAt(buf, j))
    ELSE 0

\* C15: an escaped backslash does not set the escape flag, so the character
\* after the pair \\ is unescaped: when it is the first unescaped quote of
\* the quoted token, a matching quote closes the token there and a quote of
\* the other kind is the bad-char error.
C15_EscapedBackslashEndsEscape ==
  [][(/\ tpc = "loop"
      /\ tbuf # <<>>
      /\ Head(tbuf) \in Quotes
      /\ FirstUnescapedQuote(Tail(tbuf)) > 1
      /\ Tail(tbuf)[FirstUnescapedQuote(Tail(tbuf)) - 1] = BS)
     => LET buf == Tail(tbuf)
            c == FirstUnescapedQuote(buf)
        IN  IF buf[c] = Head(tbuf)
              THEN /\ tpc' = "loop"
                   /\ tbuf' = Trim(SubSeq(buf, c + 1, Len(buf)), Cutset)
              ELSE tpc' = "tokerr"]_vars

\* s with each escaping backslash removed and the character it escapes kept
RECURSIVE Unescape(_)
Unescape(s) ==
  IF s = <<>>
    THEN <<>>
    ELSE IF Head(s) = BS
      THEN IF Len(s) >= 2
             THEN <<s[2]>> \o Unescape(SubSeq(s, 3, Len(s)))
             ELSE <<>>
      ELSE <<Head(s)>> \o Unescape(Tail(s))

\* C16: the token of a closed quoted parameter is its content with each
\* escaping backslash removed and each escaped character kept: an escaped
\* quote gives one quote, an escaped backslash gives one backslash.  Taken
\* on the quoted tokens whose quotes are not preceded by an escaped
\* backslash, where the place of the closing quote is not in question.
C16_UnescapedContent ==
  [][(/\ tpc = "loop"
      /\ tbuf # <<>>
      /\ Head(tbuf) \in Quotes
      /\ FirstUnescapedQuote(Tail(tbuf)) > 0
      /\ Tail(tbuf)[FirstUnescapedQuote(Tail(tbuf))] = Head(tbuf)
      /\ \A j \in 2..FirstUnescapedQuote(Tail(tbuf)) :
           (Tail(tbuf)[j] \in Quotes /\ Tail(tbuf)[j - 1] = BS)
             => EscapedAt(Tail(tbuf), j))
     => LET buf == Tail(tbuf)
            c == FirstUnescapedQuote(buf)
        IN  /\ tpc' = "loop"
            /\ ttokens' = Append(ttokens, Unescape(SubSeq(buf, 1, c - 1)))]_vars

\* C17: a quoted token with no unescaped quote after its opening quote is
\* accepted: tokenization goes on without error, the token is the whole
\* remainder of the line after the opening quote, and no token follows it.
C17_OpenQuoteLenient ==
  [][(/\ tpc = "loop"
      /\ tbuf # <<>>
      /\ Head(tbuf) \in Quotes
      /\ FirstUnescapedQuote(Tail(tbuf)) = 0)
     => /\ tpc' = "loop"
        /\ ttokens' = Append(ttokens, Tail(tbuf))
        /\ tbuf' = <<>>]_vars

\* the line a "\a: the quoted token is left open and comes out as \a, the
\* last of two tokens
C17_Witness ==
  /\ tpc = "tokok"
  /\ tline = <<"a", " ", "\"", "\\", "a">>
  /\ ttokens = << <<"a">>, <<"\\", "a">> >>

\* l, read token by token, ends inside a quoted token: its last token opens
\* with a quote and has no unescaped quote after it.  The tokens before it
\* are atoms and closed quoted tokens whose closing quote does not follow a
\* backslash.
RECURSIVE EndsOpen(_)
EndsOpen(l) ==
  IF l = <<>>
    THEN FALSE
    ELSE IF Head(l) \in Quotes
      THEN LET buf == Tail(l)
               c == FirstUnescapedQuote(buf)
           IN  IF c = 0
                 THEN TRUE
                 ELSE /\ buf[c] = Head(l)
                      /\ c = 1 \/ buf[c - 1] # BS
                      /\ EndsOpen(Trim(SubSeq(buf, c + 1, Len(buf)), Cutset))
      ELSE /\ FirstIndex(l, SP) > 0
           /\ EndsOpen(Trim(SubSeq(l, FirstIndex(l, SP), Len(l)), Cutset))

\* C18 as stated: a line with unterminated quoting is dropped like a line
\* that does not parse: no handler is invoked for it and the loop is back at
\* ReadLine.
C18_UnterminatedDiscarded ==
  [][(pc = "GOTLINE" /\ EndsOpen(Trimmed)) =>
       /\ pc' = "ACTIVE"
       /\ calls' = calls
       /\ inflight' = inflight]_vars

\* C18, amended: a line with unterminated quoting is no error in the
\* connection loop: it parses, and exactly one handler is invoked for it.
C18_UnterminatedDispatched ==
  [][(pc = "GOTLINE" /\ EndsOpen(Trimmed)) =>
       /\ pc' = "HANDLER"
       /\ command' # <<>>
       /\ Len(calls') = Len(calls) + 1
       /\ inflight' = inflight + 1
       /\ outcomes' = Append(outcomes, "parsed")]_vars

\* the line 'a was dispatched as the command A
C18_Witness ==
  /\ pc = "HANDLER"
  /\ line = <<"'", "a", " ">>
  /\ EndsOpen(Trimmed)
  /\ command = <<[Command |-> <<"A">>, Params |-> <<>>]>>
  /\ Len(calls) = 1

\* C20: tokenizeLine terminates on every line, trimmed or not: an iteration
\* of its loop that does not fail leaves a strictly shorter buffer, so the
\* iterations done and the length of the buffer left never add up to more
\* than the length of the line; the loop goes on while the buffer is not
\* empty, and it ends when the buffer is empty and only then.
C20_TokenizerTerminates ==
  /\ [](tpc = "loop" =>
          /\ Len(ttokens) + Len(tbuf) <= Len(tline)
          /\ ENABLED NextParse)
  /\ [][/\ (tpc = "loop" /\ tbuf # <<>>) =>
             \/ tpc' = "tokerr"
             \/ tpc' = "loop" /\ Len(tbuf') < Len(tbuf)
        /\ (tpc = "loop" /\ tbuf = <<>>) => tpc' = "tokok"
        /\ (tpc = "loop" /\ tpc' = "tokok") => tbuf = <<>>]_vars

\* an untrimmed line that begins with a space and ends with a quote: three
\* iterations, the first and the last giving the empty token
C20_Witness ==
  /\ tpc = "tokok"
  /\ tline = <<" ", "a", " ", "\"">>
  /\ tbuf = <<>>
  /\ ttokens = << <<>>, <<"a">>, <<>> >>

====
